---- MODULE Spec2Model ----
(***************************************************************************)
(* gpu-attester (nilcc-attester/gpu-attester/main.py): one run of main().  *)
(* The state is the process: its argv, the statement main() is at, the     *)
(* configuration of the two named loggers, what has been written to stdout *)
(* and stderr, the calls made on the SDK client, and the exit status.      *)
(* The vendor SDK (nv_attestation_sdk) is the environment: every client    *)
(* call returns some value or raises, and while SDK code runs (its import  *)
(* and each client call) it may log records on its two loggers and, while  *)
(* it is imported, attach its own stdout handlers to them.                 *)
(***************************************************************************)
EXTENDS Integers, Sequences, FiniteSets, TLC

VARIABLES argv, pc, level, handlers, stdout, stderr, calls, nonce,
          evidence, attested, token, raised, exit, logged

vars == <<argv, pc, level, handlers, stdout, stderr, calls, nonce,
          evidence, attested, token, raised, exit, logged>>

(***************************************************************************)
(* Bounds of the model.                                                    *)
(***************************************************************************)
\* longest command-line argument, in characters
MaxArgLen == 2
\* longest token returned by get_token, in code points
MaxTokLen == 2
\* most records the SDK logs in one run
MaxLogs == 1

\* characters a command-line argument is drawn from
ArgChars == {"-", "h", "a"}
\* code points a token is drawn from: space (1 byte in UTF-8), e-acute (2 bytes),
\* the euro sign (3 bytes)
TokenChars == {32, 233, 8364}
\* opaque evidence objects get_evidence may return
Evidences == {"ev1", "ev2"}
\* values attest may return
AttestResults == {"True", "False", "None"}

RECURSIVE SeqsUpTo(_, _)
SeqsUpTo(S, n) ==
    IF n = 0 THEN {<<>>}
    ELSE LET shorter == SeqsUpTo(S, n - 1)
         IN  shorter \cup {Append(s, c) : s \in {t \in shorter : Len(t) = n - 1}, c \in S}

Range(s) == {s[i] : i \in 1..Len(s)}

(***************************************************************************)
(* logging: the levels, and what disable_logging does to a logger.         *)
(***************************************************************************)
NOTSET == 0
DEBUG == 10
INFO == 20
WARNING == 30
ERROR == 40
CRITICAL == 50
Levels == {DEBUG, INFO, WARNING, ERROR, CRITICAL}

SdkLogger == "sdk-logger"
GpuLogger == "gpu-verifier-info"
Loggers == {SdkLogger, GpuLogger}

\* mutant: setLevel(logging.CRITICAL), which still lets CRITICAL records through
MuteLevelCritical == CRITICAL

\* logger.setLevel(logging.CRITICAL + 1)
MuteLevel == CRITICAL + 1

\* disable_logging(name): the logger's new level and handler list
DisableLevel(lv, name) == [lv EXCEPT ![name] = MuteLevel]

DisableHandlers(hd, name) == [hd EXCEPT ![name] = Append(@, "stderr")]

\* Logger.getEffectiveLevel: the logger's own level, or the root's (WARNING)
EffectiveLevel(name) == IF level[name] # NOTSET THEN level[name] ELSE WARNING

\* Logger.isEnabledFor
IsEnabledFor(name, lvl) == lvl >= EffectiveLevel(name)

\* the stream entries one record produces: one per handler of the logger; the
\* root has no handler, and with no handler at all the last-resort handler
\* writes records of WARNING and above to stderr
Record(name, lvl, at) == [src |-> "log", name |-> name, level |-> lvl, phase |-> at]

EmitTo(stream, name, lvl, at) ==
    IF ~IsEnabledFor(name, lvl) THEN <<>>
    ELSE LET own == SelectSeq(handlers[name], LAMBDA h : h = stream)
             n   == Len(own) + (IF handlers[name] = <<>> /\ stream = "stderr"
                                   /\ lvl >= WARNING THEN 1 ELSE 0)
         IN  [i \in 1..n |-> Record(name, lvl, at)]

(***************************************************************************)
(* main(): the statements in program order.                                *)
(***************************************************************************)
\* mutant: the SDK is imported before any logger is muted
ProgramImportFirst ==
    <<"import", "mute_sdk", "mute_gpu", "parse", "construct", "set_name",
      "set_nonce", "add_verifier", "get_evidence", "attest", "get_token", "print">>

\* mutant: the arguments are parsed after the client has been built
ProgramParseLate ==
    <<"mute_sdk", "import", "mute_gpu", "construct", "set_name", "parse",
      "set_nonce", "add_verifier", "get_evidence", "attest", "get_token", "print">>

\* mutant: the nonce is set before the name
ProgramNonceFirst ==
    <<"mute_sdk", "import", "mute_gpu", "parse", "construct", "set_nonce",
      "set_name", "add_verifier", "get_evidence", "attest", "get_token", "print">>

Program ==
    <<"mute_sdk", "import", "mute_gpu", "parse", "construct", "set_name",
      "set_nonce", "add_verifier", "get_evidence", "attest", "get_token", "print">>

IndexOf(p) == CHOOSE i \in 1..Len(Program) : Program[i] = p

\* the statement after p; after the last one main() returns
NextStmt(p) == IF IndexOf(p) = Len(Program) THEN "done" ELSE Program[IndexOf(p) + 1]

FirstStmt == Program[1]

\* the statements that run SDK code
ClientPhases == {"construct", "set_name", "set_nonce", "add_verifier",
                 "get_evidence", "attest", "get_token"}
SdkPhases == {"import"} \cup ClientPhases

Terminal == {"done", "exited"}

(***************************************************************************)
(* argparse: ArgumentParser(prog="gpu-attester") with the one positional   *)
(* "nonce" and the -h/--help option every parser has.                      *)
(***************************************************************************)
Digits == {"0", "1", "2", "3", "4", "5", "6", "7", "8", "9"}

HelpLong == <<"-", "-", "h", "e", "l", "p">>

IsPrefix(a, b) == Len(a) <= Len(b) /\ \A i \in 1..Len(a) : a[i] = b[i]

\* how the parser takes one argument string: "positional", "separator" (--),
\* "help", "badflag" (-h glued to something that is no flag) or "unknown"
Classify(a) ==
    IF a = <<>> THEN "positional"
    ELSE IF a[1] # "-" THEN "positional"
    ELSE IF a = <<"-", "-">> THEN "separator"
    ELSE IF a = <<"-", "h">> \/ a = HelpLong THEN "help"
    ELSE IF Len(a) = 1 THEN "positional"
    ELSE IF a[2] = "-" /\ IsPrefix(a, HelpLong) THEN "help"
    ELSE IF a[2] = "h"
         THEN IF \A i \in 3..Len(a) : a[i] = "h" THEN "help" ELSE "badflag"
    ELSE IF \A i \in 2..Len(a) : a[i] \in Digits THEN "positional"
    ELSE IF " " \in Range(a) THEN "positional"
    ELSE "unknown"

\* parser.parse_args(): "ok", "help" (prints the help, exits 0) or "error"
\* (prints the usage and the error to stderr, exits 2)
ParseOutcome(args) ==
    IF Len(args) = 0 THEN "error"
    ELSE CASE Classify(args[1]) = "positional" -> "ok"
           [] Classify(args[1]) = "help" -> "help"
           [] OTHER -> "error"

\* mutant: the nonce is stripped of leading dashes on its way to the SDK
RECURSIVE NonceArgStripped(_)
NonceArgStripped(a) ==
    IF a # <<>> /\ a[1] = "-" THEN NonceArgStripped(Tail(a)) ELSE a

\* args.nonce for an accepted argument (type=str)
NonceArg(a) == a

(***************************************************************************)
(* token.encode("utf-8"), base64.b64encode(...).decode("utf-8"), .strip()  *)
(***************************************************************************)
\* code points below 256 encoded as one byte (latin-1), the others as in UTF-8
Utf8CharLatin1(cp) ==
    IF cp < 256 THEN <<cp>>
    ELSE IF cp < 2048 THEN <<192 + (cp \div 64), 128 + (cp % 64)>>
    ELSE <<224 + (cp \div 4096), 128 + ((cp \div 64) % 64), 128 + (cp % 64)>>

Utf8Char(cp) ==
    IF cp < 128 THEN <<cp>>
    ELSE IF cp < 2048 THEN <<192 + (cp \div 64), 128 + (cp % 64)>>
    ELSE IF cp < 65536
         THEN <<224 + (cp \div 4096), 128 + ((cp \div 64) % 64), 128 + (cp % 64)>>
    ELSE <<240 + (cp \div 262144), 128 + ((cp \div 4096) % 64),
           128 + ((cp \div 64) % 64), 128 + (cp % 64)>>

RECURSIVE Utf8Encode(_)
Utf8Encode(t) == IF t = <<>> THEN <<>> ELSE Utf8Char(Head(t)) \o Utf8Encode(Tail(t))

B64Alphabet ==
    <<"A", "B", "C", "D", "E", "F", "G", "H", "I", "J", "K", "L", "M", "N", "O", "P",
      "Q", "R", "S", "T", "U", "V", "W", "X", "Y", "Z", "a", "b", "c", "d", "e", "f",
      "g", "h", "i", "j", "k", "l", "m", "n", "o", "p", "q", "r", "s", "t", "u", "v",
      "w", "x", "y", "z", "0", "1", "2", "3", "4", "5", "6", "7", "8", "9", "+", "/">>

B64Digit(n) == B64Alphabet[n + 1]

RECURSIVE B64Encode(_)
B64Encode(b) ==
    IF Len(b) = 0 THEN <<>>
    ELSE IF Len(b) = 1
         THEN <<B64Digit(b[1] \div 4), B64Digit((b[1] % 4) * 16), "=", "=">>
    ELSE IF Len(b) = 2
         THEN <<B64Digit(b[1] \div 4), B64Digit((b[1] % 4) * 16 + (b[2] \div 16)),
                B64Digit((b[2] % 16) * 4), "=">>
    ELSE <<B64Digit(b[1] \div 4), B64Digit((b[1] % 4) * 16 + (b[2] \div 16)),
           B64Digit((b[2] % 16) * 4 + (b[3] \div 64)), B64Digit(b[3] % 64)>>
         \o B64Encode(SubSeq(b, 4, Len(b)))

Whitespace == {" ", "\t", "\n", "\r"}

RECURSIVE LStrip(_, _)
LStrip(s, chars) ==
    IF s # <<>> /\ Head(s) \in chars THEN LStrip(Tail(s), chars) ELSE s

RECURSIVE RStrip(_, _)
RStrip(s, chars) ==
    IF s # <<>> /\ s[Len(s)] \in chars THEN RStrip(SubSeq(s, 1, Len(s) - 1), chars) ELSE s

\* mutant: the padding is stripped with the whitespace
StripPadding(s) == RStrip(LStrip(s, Whitespace \cup {"="}), Whitespace \cup {"="})

\* str.strip()
Strip(s) == RStrip(LStrip(s, Whitespace), Whitespace)

\* mutant: the token is encoded with the wrong codec before base64
RECURSIVE Latin1Encode(_)
Latin1Encode(t) ==
    IF t = <<>> THEN <<>> ELSE Utf8CharLatin1(Head(t)) \o Latin1Encode(Tail(t))

B64TokenLatin1(t) == Strip(B64Encode(Latin1Encode(t)))

\* b64_token of line 43
B64Token(t) == Strip(B64Encode(Utf8Encode(t)))

\* print(x): x and a newline, in one write
PrintLine(x) == [src |-> "main", text |-> Append(x, "\n")]

(***************************************************************************)
(* The SDK client calls and their arguments.                               *)
(***************************************************************************)
ClientName == "nilcc-gpu-attestation"
NRAS_URL == "https://nras.attestation.nvidia.com/v3/attest/gpu"

CallArgs(p) ==
    CASE p = "set_name" -> <<ClientName>>
      [] p = "set_nonce" -> nonce
      [] p = "add_verifier" -> <<"GPU", "REMOTE", NRAS_URL, "">>
      [] p = "attest" -> <<evidence>>
      [] OTHER -> <<>>

Call(p) == [op |-> p, args |-> CallArgs(p)]

\* mutant: "is not False" in place of truthiness, so that None counts as success
TruthyNotFalse(r) == r # "False"

\* bool(r) of the value attest returns
Truthy(r) == r = "True"

\* mutant: the sys.exit(1) after the message is missing
AttestFailedFallsThrough(p) == NextStmt(p)

\* where a falsy attest result takes the process: sys.exit(1)
AttestFailed(p) == "exited"

\* mutant: the exception of an SDK call is swallowed and main() goes on
CaughtAndContinue(p) == NextStmt(p)

\* where an exception raised by the SDK call at p takes the process: main()
\* has no try, so the interpreter prints the traceback and exits
Uncaught(p) == "exited"

\* the exit status once the process is at q: 0 when main() returned
ExitAt(q, status) == IF q = "done" THEN 0 ELSE status

Advance ==
    /\ pc' = NextStmt(pc)
    /\ exit' = ExitAt(NextStmt(pc), exit)

Running == -1

Args == SeqsUpTo(ArgChars, MaxArgLen)
Tokens == SeqsUpTo(TokenChars, MaxTokLen)

Init ==
    /\ argv \in {<<>>} \cup {<<a>> : a \in Args}
    /\ pc = FirstStmt
    /\ level = [n \in Loggers |-> NOTSET]
    /\ handlers = [n \in Loggers |-> <<>>]
    /\ stdout = <<>>
    /\ stderr = <<>>
    /\ calls = <<>>
    /\ nonce = <<>>
    /\ evidence = "none"
    /\ attested = "none"
    /\ token = <<>>
    /\ raised = "none"
    /\ exit = Running
    /\ logged = [n \in Loggers |-> 0]

\* line 21: disable_logging("sdk-logger")
MuteSdkLogger ==
    /\ pc = "mute_sdk"
    /\ level' = DisableLevel(level, SdkLogger)
    /\ handlers' = DisableHandlers(handlers, SdkLogger)
    /\ Advance
    /\ UNCHANGED <<argv, stdout, stderr, calls, nonce, evidence, attested, token,
                   raised, logged>>

\* line 22: from nv_attestation_sdk import attestation (the import returns)
ImportSDK ==
    /\ pc = "import"
    /\ Advance
    /\ UNCHANGED <<argv, level, handlers, stdout, stderr, calls, nonce, evidence,
                   attested, token, raised, logged>>

\* line 24: disable_logging("gpu-verifier-info")
MuteGpuLogger ==
    /\ pc = "mute_gpu"
    /\ level' = DisableLevel(level, GpuLogger)
    /\ handlers' = DisableHandlers(handlers, GpuLogger)
    /\ Advance
    /\ UNCHANGED <<argv, stdout, stderr, calls, nonce, evidence, attested, token,
                   raised, logged>>

\* the SDK, while it is imported, attaches a stdout handler to one of its loggers
SDKAddHandler(n) ==
    /\ pc = "import"
    /\ "stdout" \notin Range(handlers[n])
    /\ handlers' = [handlers EXCEPT ![n] = Append(@, "stdout")]
    /\ UNCHANGED <<argv, pc, level, stdout, stderr, calls, nonce, evidence,
                   attested, token, raised, exit, logged>>

\* SDK code logs one record on one of its loggers
SDKLog(n, lvl) ==
    /\ pc \in SdkPhases
    /\ logged[SdkLogger] + logged[GpuLogger] < MaxLogs
    /\ logged' = [logged EXCEPT ![n] = @ + 1]
    /\ stdout' = stdout \o EmitTo("stdout", n, lvl, pc)
    /\ stderr' = stderr \o EmitTo("stderr", n, lvl, pc)
    /\ UNCHANGED <<argv, pc, level, handlers, calls, nonce, evidence, attested,
                   token, raised, exit>>

\* lines 26-28: parser.parse_args()
ParseArgs ==
    /\ pc = "parse"
    /\ LET out == ParseOutcome(argv) IN
       \/ /\ out = "ok"
          /\ nonce' = <<NonceArg(argv[1])>>
          /\ Advance
          /\ UNCHANGED <<stdout, stderr>>
       \/ /\ out = "help"
          /\ stdout' = Append(stdout, [src |-> "argparse", text |-> <<"usage", "help">>])
          /\ pc' = "exited"
          /\ exit' = 0
          /\ UNCHANGED <<nonce, stderr>>
       \/ /\ out = "error"
          /\ stderr' = Append(stderr, [src |-> "argparse", text |-> <<"usage", "error">>])
          /\ pc' = "exited"
          /\ exit' = 2
          /\ UNCHANGED <<nonce, stdout>>
    /\ UNCHANGED <<argv, level, handlers, calls, evidence, attested, token, raised,
                   logged>>

\* lines 30-35: Attestation(), set_name, set_nonce, add_verifier return
Configure ==
    /\ pc \in {"construct", "set_name", "set_nonce", "add_verifier"}
    /\ calls' = Append(calls, Call(pc))
    /\ Advance
    /\ UNCHANGED <<argv, level, handlers, stdout, stderr, nonce, evidence, attested,
                   token, raised, logged>>

\* line 37: evidence = client.get_evidence()
GetEvidence ==
    /\ pc = "get_evidence"
    /\ \E ev \in Evidences : evidence' = ev
    /\ calls' = Append(calls, Call(pc))
    /\ Advance
    /\ UNCHANGED <<argv, level, handlers, stdout, stderr, nonce, attested, token,
                   raised, logged>>

\* lines 38-40: if not client.attest(evidence): write the message, sys.exit(1)
Attest ==
    /\ pc = "attest"
    /\ calls' = Append(calls, Call(pc))
    /\ \E r \in AttestResults :
         /\ attested' = r
         /\ IF Truthy(r)
            THEN Advance /\ UNCHANGED stderr
            ELSE /\ stderr' = Append(stderr, [src |-> "main",
                                 text |-> <<"could not generate attestation\n">>])
                 /\ pc' = AttestFailed(pc)
                 /\ exit' = IF AttestFailed(pc) = "exited" THEN 1
                            ELSE ExitAt(AttestFailed(pc), exit)
    /\ UNCHANGED <<argv, level, handlers, stdout, nonce, evidence, token, raised,
                   logged>>

\* line 42: token = client.get_token()
GetToken ==
    /\ pc = "get_token"
    /\ \E t \in Tokens : token' = <<t>>
    /\ calls' = Append(calls, Call(pc))
    /\ Advance
    /\ UNCHANGED <<argv, level, handlers, stdout, stderr, nonce, evidence, attested,
                   raised, logged>>

\* lines 43-44: print(b64_token), after which main() returns
PrintToken ==
    /\ pc = "print"
    /\ stdout' = Append(stdout, PrintLine(B64Token(token[1])))
    /\ Advance
    /\ UNCHANGED <<argv, level, handlers, stderr, calls, nonce, evidence, attested,
                   token, raised, logged>>

\* lines 30-42: an SDK client call raises
SDKRaise ==
    /\ pc \in ClientPhases
    /\ calls' = Append(calls, Call(pc))
    /\ raised' = pc
    /\ pc' = Uncaught(pc)
    /\ IF Uncaught(pc) = "exited"
       THEN /\ stderr' = Append(stderr, [src |-> "python", text |-> <<"Traceback">>])
            /\ exit' = 1
       ELSE /\ stderr' = stderr
            /\ exit' = ExitAt(Uncaught(pc), exit)
    /\ UNCHANGED <<argv, level, handlers, stdout, nonce, evidence, attested, token,
                   logged>>

Next ==
    \/ MuteSdkLogger
    \/ ImportSDK
    \/ MuteGpuLogger
    \/ \E n \in Loggers : SDKAddHandler(n)
    \/ \E n \in Loggers, lvl \in Levels : SDKLog(n, lvl)
    \/ ParseArgs
    \/ Configure
    \/ GetEvidence
    \/ Attest
    \/ GetToken
    \/ PrintToken
    \/ SDKRaise

Spec == Init /\ [][Next]_vars

(***************************************************************************)
(* What the streams hold: the process's own writes (main's print and       *)
(* stderr.write, the parser's help and usage, the interpreter's traceback) *)
(* and the records the logging handlers emitted.                           *)
(***************************************************************************)
OwnOut(stream) == SelectSeq(stream, LAMBDA e : e.src # "log")

LogOut(stream) == SelectSeq(stream, LAMBDA e : e.src = "log")

Ops == [i \in 1..Len(calls) |-> calls[i].op]

Called(op) == \E i \in 1..Len(calls) : calls[i].op = op

OneArg == Len(argv) = 1

Accepted == OneArg /\ Classify(argv[1]) = "positional"

\* the reference decoder: base64.b64decode of a text, <<-1>> where it raises
B64Chars == {B64Alphabet[i] : i \in 1..64}

B64Value == [c \in B64Chars |-> CHOOSE i \in 0..63 : B64Alphabet[i + 1] = c]

B64Index(c) == B64Value[c]

IsB64(c) == c \in B64Chars

RECURSIVE B64Decode(_)
B64Decode(s) ==
    IF s = <<>> THEN <<>>
    ELSE IF Len(s) < 4 \/ ~IsB64(s[1]) \/ ~IsB64(s[2]) THEN <<-1>>
    ELSE LET a == B64Index(s[1])
             b == B64Index(s[2])
         IN  IF s[3] = "=" /\ s[4] = "="
             THEN IF Len(s) = 4 THEN <<a * 4 + (b \div 16)>> ELSE <<-1>>
             ELSE IF ~IsB64(s[3]) THEN <<-1>>
             ELSE IF s[4] = "="
                  THEN IF Len(s) = 4
                       THEN <<a * 4 + (b \div 16),
                              (b % 16) * 16 + (B64Index(s[3]) \div 4)>>
                       ELSE <<-1>>
             ELSE IF ~IsB64(s[4]) THEN <<-1>>
             ELSE LET c    == B64Index(s[3])
                      rest == B64Decode(SubSeq(s, 5, Len(s)))
                  IN  IF rest = <<-1>> THEN <<-1>>
                      ELSE <<a * 4 + (b \div 16), (b % 16) * 16 + (c \div 4),
                             (c % 4) * 64 + B64Index(s[4])>> \o rest

\* the text of one printed line, without the newline print ends it with
LineOf(e) == SubSeq(e.text, 1, Len(e.text) - 1)

UsageError == [src |-> "argparse", text |-> <<"usage", "error">>]
HelpText == [src |-> "argparse", text |-> <<"usage", "help">>]
FailureLine == [src |-> "main", text |-> <<"could not generate attestation\n">>]
Traceback == [src |-> "python", text |-> <<"Traceback">>]

C2_AttestFailure ==
    attested \in {"False", "None"} =>
        /\ pc = "exited" /\ exit = 1
        /\ OwnOut(stderr) = <<FailureLine>>
        /\ OwnOut(stdout) = <<>>
        /\ ~Called("get_token")
        /\ token = <<>>

\* attest returned None for the nonce "-", which the parser accepts
C2_Witness ==
    /\ attested = "None" /\ argv = <<<<"-">>>>
    /\ pc = "exited" /\ exit = 1 /\ OwnOut(stderr) = <<FailureLine>>

(***************************************************************************)
(* C3                                                                      *)
(***************************************************************************)
SuccessOutcome ==
    /\ exit = 0
    /\ Len(OwnOut(stdout)) = 1 /\ OwnOut(stdout)[1].src = "main"
    /\ OwnOut(stderr) = <<>>

FailureOutcome ==
    /\ exit = 1
    /\ Len(OwnOut(stderr)) = 1 /\ OwnOut(stderr)[1].src \in {"main", "python"}
    /\ OwnOut(stdout) = <<>>

\* C3 as stated: every run with exactly one argument, whatever the string,
\* ends either with a single base64 line on stdout and status 0, or with an
\* error message on stderr, nothing on stdout and status 1.
C3_AnyArgTwoOutcomes ==
    (OneArg /\ pc \in Terminal) =>
        \/ exit = 0 /\ Len(OwnOut(stdout)) = 1 /\ OwnOut(stdout)[1].src = "main"
        \/ exit = 1 /\ OwnOut(stderr) # <<>> /\ OwnOut(stdout) = <<>>

\* C3 as amended: a run with one argument ends in one of the two outcomes when
\* the parser takes the argument as the positional nonce; an argument it
\* takes as the help flag ends the run with the help text on stdout and
\* status 0, and one it takes as an unknown or malformed option, or as the
\* "--" separator, with the usage error on stderr, nothing on stdout and
\* status 2.
C3_OutcomesByParse ==
    (OneArg /\ pc \in Terminal) =>
        /\ Classify(argv[1]) = "positional" => SuccessOutcome \/ FailureOutcome
        /\ Classify(argv[1]) = "positional" => ~(SuccessOutcome /\ FailureOutcome)
        /\ Classify(argv[1]) = "help" =>
             exit = 0 /\ OwnOut(stdout) = <<HelpText>> /\ OwnOut(stderr) = <<>>
        /\ Classify(argv[1]) \in {"unknown", "badflag", "separator"} =>
             exit = 2 /\ OwnOut(stderr) = <<UsageError>> /\ OwnOut(stdout) = <<>>

\* a run on the nonce "-" that ended by the failure line
C3_Witness ==
    /\ argv = <<<<"-">>>> /\ pc \in Terminal
    /\ FailureOutcome /\ attested = "False"

Disabled(n) == level[n] > CRITICAL /\ "stderr" \in Range(handlers[n])

C7_UncaughtException ==
    /\ raised # "none" =>
         /\ pc = "exited" /\ exit = 1
         /\ calls[Len(calls)].op = raised
         /\ \A i \in 1..(Len(calls) - 1) : calls[i].op # raised
         /\ OwnOut(stdout) = <<>>
         /\ OwnOut(stderr) = <<Traceback>>
    /\ OwnOut(stdout) # <<>> /\ OneArg /\ Classify(argv[1]) = "positional" =>
         raised = "none" /\ Len(calls) = 7

\* get_token raised after attest had succeeded
C7_Witness ==
    /\ raised = "get_token" /\ attested = "True"
    /\ pc = "exited" /\ exit = 1 /\ OwnOut(stdout) = <<>>

(***************************************************************************)
(* C8                                                                      *)
(***************************************************************************)
\* C8 as stated: for every string given as the single argument, set_nonce is
\* called with exactly that string (unless the run ended in an exception of an
\* earlier SDK call).
C8_EveryStringReachesSetNonce ==
    (OneArg /\ pc \in Terminal /\ raised \notin {"construct", "set_name"}) =>
        \E i \in 1..Len(calls) :
            calls[i].op = "set_nonce" /\ calls[i].args = <<argv[1]>>

\* C8 as amended: whenever set_nonce is called its argument is exactly the
\* string given on the command line, and it is called for every string the
\* parser takes as the positional nonce (unless an earlier SDK call raised);
\* a string the parser takes as an option or as "--" never reaches the SDK.
C8_NonceUnmodified ==
    /\ \A i \in 1..Len(calls) :
         calls[i].op = "set_nonce" => OneArg /\ calls[i].args = <<argv[1]>>
    /\ (Accepted /\ pc \in Terminal /\ raised \notin {"construct", "set_name"}) =>
         Called("set_nonce")
    /\ (OneArg /\ Classify(argv[1]) # "positional") => calls = <<>>

\* set_nonce was called with the string "-"
C8_Witness ==
    /\ argv = <<<<"-">>>>
    /\ \E i \in 1..Len(calls) :
         calls[i].op = "set_nonce" /\ calls[i].args = <<<<"-">>>>

(***************************************************************************)
(* C9                                                                      *)
(***************************************************************************)
\* C9: on a successful run, base64-decoding the printed line gives back the
\* UTF-8 bytes of the token, and the line is the whole encoding: the strip
\* took nothing from it.
C9_RoundTrip ==
    pc = "done" =>
        LET out   == OwnOut(stdout)
            bytes == Utf8Encode(token[1])
        IN  /\ Len(out) = 1
            /\ B64Decode(LineOf(out[1])) = bytes
            /\ Len(LineOf(out[1])) = 4 * ((Len(bytes) + 2) \div 3)

\* a printed token that begins with a space and needs padding
C9_Witness ==
    /\ pc = "done" /\ token = <<<<32, 8364>>>>
    /\ B64Decode(LineOf(OwnOut(stdout)[1])) = <<32, 226, 130, 172>>

(***************************************************************************)
(* C10                                                                     *)
(***************************************************************************)
ClientOrder ==
    <<"construct", "set_name", "set_nonce", "add_verifier", "get_evidence",
      "attest", "get_token">>

\* C10: the calls made on the SDK are always a prefix of: construct, set_name,
\* set_nonce, add_verifier, get_evidence, attest, get_token (so each is made at
\* most once, in this order), with the fixed name and verifier arguments;
\* attest is given the evidence get_evidence returned, and get_token is called
\* only after attest returned a truthy value.
C10_LinearUse ==
    /\ Len(calls) <= Len(ClientOrder)
    /\ \A i \in 1..Len(calls) : calls[i].op = ClientOrder[i]
    /\ \A i \in 1..Len(calls) :
         /\ calls[i].op = "set_name" => calls[i].args = <<"nilcc-gpu-attestation">>
         /\ calls[i].op = "add_verifier" =>
              calls[i].args = <<"GPU", "REMOTE",
                                "https://nras.attestation.nvidia.com/v3/attest/gpu", "">>
         /\ calls[i].op = "attest" =>
              evidence \in Evidences /\ calls[i].args = <<evidence>>
         /\ calls[i].op = "get_token" => attested = "True"

\* all seven calls were made, attest on the second evidence object
C10_Witness ==
    /\ Len(calls) = 7 /\ evidence = "ev2"
    /\ calls[6] = [op |-> "attest", args |-> <<"ev2">>]
    /\ pc = "done"
====
